---- MODULE Spec2Model ----
(***************************************************************************)
(* Model of Thread::Coap::SecureClient (src/core/coap/secure_coap_client.cpp) *)
(* the bridge between the CoAP client, the DTLS engine and the UDP socket. *)
(*                                                                         *)
(* Execution is single threaded and run to completion, but the DTLS engine *)
(* calls back into the bridge (HandleDtlsSend, HandleDtlsReceive) while    *)
(* one of its own calls is running, and the connected callback may call    *)
(* back into Connect.  The model therefore keeps an explicit call stack:   *)
(* a bridge method that calls the engine pushes a frame, the engine issues *)
(* its callbacks while the frame is on top, and the rest of the method     *)
(* runs when the engine call returns.                                      *)
(***************************************************************************)
EXTENDS Integers, Sequences, FiniteSets

\* ------------------------------------------------------------------ bounds
MaxMsgs == 2        \* buffers in the message pool
MaxPayload == 2     \* bytes one pooled message can hold
MaxByte == 2        \* byte values are 1..MaxByte
MaxEmit == 2        \* callbacks the engine issues during one of its calls
MaxCallbacks == 2   \* distinct (callback, context) pairs the application uses

\* kMaxMessageLength: capacity of mBuffer (scaled down)
kMaxMessageLength == 1

NULL == 0

MsgIds == 1..MaxMsgs
Bytes == 1..MaxByte
Chunks == {<<b>> : b \in Bytes}
Callbacks == 1..MaxCallbacks
\* the opaque context the application registers together with callback cb
ContextOf(cb) == cb + 10

\* an endpoint is <<address, port>>
Unspecified == <<0, 0>>
Peers == {<<1, 1>>, <<2, 2>>}
Sources == Peers \cup {<<1, 2>>}

VARIABLES
    mConnectedCallback, \* SecureClient::mConnectedCallback (NULL or a callback)
    mContext,           \* SecureClient::mContext
    mPeerAddress,       \* SecureClient::mPeerAddress
    mTransmitMessage,   \* SecureClient::mTransmitMessage (NULL or a message id)
    data,               \* the bytes of the message mTransmitMessage points at
    posted,             \* mTransmitTask is posted to the tasklet scheduler
    started,            \* Dtls::IsStarted()
    connected,          \* Dtls::IsConnected()
    heap,               \* the message pool: id -> "pool" (free) or "live" (in use)
    stack,              \* the call stack, innermost frame last
    lastOp,             \* the step just taken: [op, res, bad, n]
    sendTo,             \* the mSocket.SendTo of the step just taken
    flushRec,           \* what the flush run just taken did
    lastFire,           \* the callback invocation of the step just taken
    lastSrc,            \* the source of the datagram Receive was just called with
    sinceFlush,         \* chunks HandleDtlsSend accepted since the last flush run
    clean,              \* every HandleDtlsSend since the last flush run succeeded
    dropped,            \* Stop released accepted chunks since the last flush run
    connOk,             \* the latest Connect returned success
    fired,              \* callback invocations since the latest Connect
    hookLen,            \* length of the message the Send hook was just called with
    processed,          \* source ProcessReceivedMessage was just called with
    handed,             \* messages passed to SendTo that the socket did not take
    sessionPeer,        \* peer of the Connect that started the running session
    bufPeers            \* mPeerAddress values under which the pending bytes were buffered

prog == <<mConnectedCallback, mContext, mPeerAddress, mTransmitMessage, data,
          posted, started, connected, heap, stack>>
flushGhost == <<sinceFlush, clean, dropped>>
cbGhost == <<connOk, fired>>
ownGhost == <<handed, sessionPeer, bufPeers>>
vars == <<mConnectedCallback, mContext, mPeerAddress, mTransmitMessage, data,
          posted, started, connected, heap, stack, lastOp, sendTo, flushRec,
          lastFire, lastSrc, sinceFlush, clean, dropped, connOk, fired, hookLen,
          processed, handed, sessionPeer, bufPeers>>

Op(op, res, bad, n) == [op |-> op, res |-> res, bad |-> bad, n |-> n]
Frame(op, from, k, res) == [op |-> op, from |-> from, k |-> k, res |-> res]

NoSend == [valid |-> FALSE, payload |-> <<>>, dest |-> Unspecified, depth |-> 0,
           live |-> TRUE, peers |-> {}]
NoFlush == [valid |-> FALSE, n |-> 0, payload |-> <<>>, chunks |-> <<>>,
            clean |-> TRUE, dropped |-> FALSE]
NoFire == [cb |-> NULL, ctx |-> NULL, conn |-> TRUE]
NoSrc == <<-1, -1>>

\* the step calls neither the Send hook nor ProcessReceivedMessage
NoHook == hookLen' = 0 /\ processed' = NoSrc
\* the step issues no SendTo, is no flush run and invokes no callback
NoFlushNoFire == flushRec' = NoFlush /\ lastFire' = NoFire /\ lastSrc' = NoSrc /\ NoHook
Quiet == sendTo' = NoSend /\ NoFlushNoFire

Top == stack[Len(stack)]
Pop == SubSeq(stack, 1, Len(stack) - 1)
InEngine ==
    IF stack = <<>> THEN FALSE ELSE Top.op \in {"Start", "Stop", "Send", "Receive"}

RECURSIVE Concat(_)
Concat(chunks) ==
    IF chunks = <<>> THEN <<>> ELSE Head(chunks) \o Concat(Tail(chunks))

\* ------------------------------------------------------------ message pool
\* MessagePool::New / Socket::NewMessage: the first free buffer, NULL when the
\* allocation fails or every buffer is in use
NewMessage(h, allocOk) ==
    IF allocOk /\ \E i \in MsgIds : h[i] = "pool"
    THEN CHOOSE i \in MsgIds : h[i] = "pool" /\ \A j \in MsgIds : h[j] = "pool" => i <= j
    ELSE NULL

\* Message::Append: fails when the pool cannot extend the message
AppendFits(d, chunk, appendOk) == appendOk /\ Len(d) + Len(chunk) <= MaxPayload
AppendData(d, chunk) == d \o chunk

\* Message::Free: returns the buffers to the pool
Free(h, id) == [h EXCEPT ![id] = "pool"]

\* the message behind a reference is allocated (not yet freed or handed over)
Live(h, id) == IF id = NULL THEN FALSE ELSE h[id] = "live"

Init ==
    /\ mConnectedCallback = NULL
    /\ mContext = NULL
    /\ mPeerAddress = Unspecified
    /\ mTransmitMessage = NULL
    /\ data = <<>>
    /\ posted = FALSE
    /\ started = FALSE
    /\ connected = FALSE
    /\ heap = [i \in MsgIds |-> "pool"]
    /\ stack = <<>>
    /\ lastOp = Op("Init", "None", FALSE, 0)
    /\ sendTo = NoSend
    /\ flushRec = NoFlush
    /\ lastFire = NoFire
    /\ lastSrc = NoSrc
    /\ sinceFlush = <<>>
    /\ clean = TRUE
    /\ dropped = FALSE
    /\ connOk = FALSE
    /\ fired = 0
    /\ hookLen = 0
    /\ processed = NoSrc
    /\ handed = {}
    /\ sessionPeer = Unspecified
    /\ bufPeers = {}

\* ------------------------------------------------------- HandleDtlsSend
\* The engine hands a ciphertext chunk to the bridge while one of its calls
\* (Start, Stop, Send, Receive) is running.

\* lines 198-202: allocate the pending message when there is none
DtlsSendMessage(allocOk) ==
    IF mTransmitMessage = NULL THEN NewMessage(heap, allocOk) ELSE mTransmitMessage

DtlsSendHeap(msg) ==
    IF mTransmitMessage = NULL /\ msg # NULL THEN [heap EXCEPT ![msg] = "live"] ELSE heap

DtlsSendData(msg) == IF mTransmitMessage = NULL THEN <<>> ELSE data

\* lines 204-206: the chunk is appended and the transmit task posted; nothing
\* is sent from here
\* (mutation: the chunk is handed to the socket from inside the callback)
DtlsSendTransmitNow(msg, h1, d1, chunk) ==
    /\ mTransmitMessage' = NULL
    /\ heap' = Free(h1, msg)
    /\ data' = <<>>
    /\ posted' = posted
    /\ sendTo' = [valid |-> TRUE, payload |-> AppendData(d1, chunk),
                  dest |-> mPeerAddress, depth |-> Len(stack), live |-> TRUE,
                  peers |-> {mPeerAddress}]

\* (mutation: the chunk replaces what was buffered instead of following it)
DtlsSendPostLatestOnly(msg, h1, d1, chunk) ==
    /\ mTransmitMessage' = msg
    /\ heap' = h1
    /\ data' = AppendData(<<>>, chunk)
    /\ posted' = TRUE
    /\ sendTo' = NoSend

DtlsSendPost(msg, h1, d1, chunk) ==
    /\ mTransmitMessage' = msg
    /\ heap' = h1
    /\ data' = AppendData(d1, chunk)
    /\ posted' = TRUE
    /\ sendTo' = NoSend

HandleDtlsSend(chunk, allocOk, appendOk) ==
    /\ InEngine
    /\ Top.k < MaxEmit
    /\ Top.res = "None"
    /\ LET msg == DtlsSendMessage(allocOk)
           h1 == DtlsSendHeap(msg)
           d1 == DtlsSendData(msg)
       IN  /\ stack' = [stack EXCEPT ![Len(stack)].k = @ + 1]
           /\ IF msg = NULL
              THEN \* NewMessage failed: error = NoBufs, nothing to free
                   /\ mTransmitMessage' = NULL
                   /\ heap' = heap
                   /\ data' = <<>>
                   /\ posted' = posted
                   /\ sendTo' = NoSend
                   /\ lastOp' = Op("HandleDtlsSend", "NoBufs", FALSE, 0)
                   /\ clean' = FALSE
                   /\ sinceFlush' = <<>>
                   /\ bufPeers' = {}
              ELSE IF AppendFits(d1, chunk, appendOk)
              THEN /\ DtlsSendPost(msg, h1, d1, chunk)
                   /\ lastOp' = Op("HandleDtlsSend", "None", ~Live(h1, msg), 0)
                   /\ clean' = clean
                   /\ sinceFlush' = IF clean /\ ~dropped
                                    THEN Append(sinceFlush, chunk)
                                    ELSE <<>>
                   /\ bufPeers' = (IF mTransmitMessage = NULL THEN {} ELSE bufPeers)
                                   \cup {mPeerAddress}
              ELSE \* Append failed: error = NoBufs, the message is freed and
                   \* mTransmitMessage keeps pointing at it
                   /\ mTransmitMessage' = msg
                   /\ heap' = Free(h1, msg)
                   /\ data' = d1
                   /\ posted' = posted
                   /\ sendTo' = NoSend
                   /\ lastOp' = Op("HandleDtlsSend", "NoBufs", ~Live(h1, msg), 1)
                   /\ clean' = FALSE
                   /\ sinceFlush' = <<>>
                   /\ bufPeers' = IF mTransmitMessage = NULL THEN {} ELSE bufPeers
    /\ NoFlushNoFire
    /\ UNCHANGED <<mConnectedCallback, mContext, mPeerAddress, started, connected,
                   dropped, connOk, fired, handed, sessionPeer>>

\* ----------------------------------------------------- HandleUdpTransmit
\* The tasklet scheduler runs the posted transmit task from the main loop,
\* when no other call is in progress.
\* (mutation: the NULL check of line 229 is dropped)
UdpTransmitSendsAlways(msg) == TRUE

\* line 229: SendTo is reached only with a pending message
UdpTransmitSends(msg) == msg # NULL

\* lines 238-241: the exit label frees only when error is set, and error is
\* set only by the NULL check of line 229 (the result of SendTo is dropped)
UdpTransmitFrees(error, msg) == IF error # "None" /\ msg # NULL THEN 1 ELSE 0

HandleUdpTransmit(sendOk) ==
    /\ stack = <<>>
    /\ posted
    /\ posted' = FALSE
    /\ mTransmitMessage' = NULL
    /\ data' = <<>>
    /\ IF ~UdpTransmitSends(mTransmitMessage)
       THEN \* error = NoBufs; nothing to send
            LET frees == UdpTransmitFrees("NoBufs", mTransmitMessage)
            IN  /\ heap' = IF frees > 0 THEN Free(heap, mTransmitMessage) ELSE heap
                /\ sendTo' = NoSend
                /\ handed' = handed
                /\ lastOp' = Op("HandleUdpTransmit", "NoBufs", FALSE, frees)
                /\ flushRec' = [valid |-> TRUE, n |-> 0, payload |-> <<>>,
                                chunks |-> sinceFlush, clean |-> clean,
                                dropped |-> dropped]
       ELSE \* mSocket.SendTo(*mTransmitMessage, mPeerAddress), result ignored:
            \* the socket takes the message only when SendTo succeeds
            LET frees == UdpTransmitFrees("None", mTransmitMessage)
                taken == sendOk \/ frees > 0
            IN  /\ heap' = IF taken THEN Free(heap, mTransmitMessage) ELSE heap
                /\ handed' = IF ~taken /\ Live(heap, mTransmitMessage)
                             THEN handed \cup {mTransmitMessage}
                             ELSE handed
                /\ sendTo' = [valid |-> TRUE, payload |-> data, dest |-> mPeerAddress,
                              depth |-> Len(stack),
                              live |-> Live(heap, mTransmitMessage),
                              peers |-> bufPeers]
                /\ lastOp' = Op("HandleUdpTransmit",
                                IF sendOk THEN "None" ELSE "Failed",
                                ~Live(heap, mTransmitMessage), frees)
                /\ flushRec' = [valid |-> TRUE, n |-> 1, payload |-> data,
                                chunks |-> sinceFlush, clean |-> clean,
                                dropped |-> dropped]
    /\ lastFire' = NoFire
    /\ lastSrc' = NoSrc
    /\ NoHook
    /\ sinceFlush' = <<>>
    /\ clean' = TRUE
    /\ dropped' = FALSE
    /\ bufPeers' = {}
    /\ UNCHANGED <<mConnectedCallback, mContext, mPeerAddress, started, connected,
                   stack, connOk, fired, sessionPeer>>

\* ------------------------------------------------------------ DTLS engine
\* MeshCoP::Dtls, reached through mNetif.GetDtls().  Its effect on
\* IsStarted()/IsConnected() is decided when the call is made; its callbacks
\* run while its frame is on top of the stack.

\* Dtls::Start: a successful start begins a new handshake, a failed start
\* leaves the engine as it was
DtlsStartStarted(ok) == IF ok THEN TRUE ELSE started
DtlsStartConnected(ok) == IF ok THEN FALSE ELSE connected

\* Dtls::Receive: a started session may complete its handshake (hs) on this
\* datagram; an engine that is not started ignores it
DtlsReceiveConnected(hs) == connected \/ (started /\ hs)

\* callbacks an engine call may still issue: none when the call fails or the
\* engine has no session
EmitBudget(active) == IF active THEN 0 ELSE MaxEmit

\* ----------------------------------------------------------------- Connect
\* Called by the application, at top level or from inside the connected
\* callback (once per invocation of the callback).
CanCall == IF stack = <<>> THEN TRUE ELSE Top.op = "Callback" /\ Top.k = 0

Connect(peer, cb, ok) ==
    /\ CanCall
    /\ mPeerAddress' = peer
    /\ mConnectedCallback' = cb
    /\ mContext' = ContextOf(cb)
    /\ started' = DtlsStartStarted(ok)
    /\ connected' = DtlsStartConnected(ok)
    /\ stack' = (IF stack = <<>> THEN <<>>
                 ELSE [stack EXCEPT ![Len(stack)].k = 1])
                \o <<Frame("Start", "Connect", EmitBudget(ok),
                           IF ok THEN "None" ELSE "Failed")>>
    /\ lastOp' = Op("Dtls::Start", "", FALSE, 0)
    /\ connOk' = ok
    /\ fired' = 0
    /\ sessionPeer' = IF ok THEN peer ELSE sessionPeer
    /\ Quiet
    /\ UNCHANGED <<mTransmitMessage, data, posted, heap, handed, bufPeers>>
    /\ UNCHANGED flushGhost

\* Dtls::Start returned: Connect returns its result
ConnectReturn ==
    /\ stack # <<>>
    /\ Top.op = "Start"
    /\ stack' = Pop
    /\ lastOp' = Op("Connect", Top.res, FALSE, 0)
    /\ UNCHANGED <<mConnectedCallback, mContext, mPeerAddress, mTransmitMessage,
                   data, posted, started, connected, heap>>
    /\ UNCHANGED ownGhost
    /\ UNCHANGED flushGhost
    /\ UNCHANGED cbGhost
    /\ Quiet

\* -------------------------------------------------------------- Disconnect
Disconnect ==
    /\ stack = <<>>
    /\ started' = FALSE
    /\ connected' = FALSE
    /\ stack' = <<Frame("Stop", "Disconnect", EmitBudget(started), "None")>>
    /\ lastOp' = Op("Dtls::Stop", "", FALSE, 0)
    /\ sessionPeer' = Unspecified
    /\ UNCHANGED <<handed, bufPeers>>
    /\ UNCHANGED <<mConnectedCallback, mContext, mPeerAddress, mTransmitMessage,
                   data, posted, heap>>
    /\ UNCHANGED flushGhost
    /\ UNCHANGED cbGhost
    /\ Quiet

DisconnectReturn ==
    /\ stack # <<>>
    /\ Top.op = "Stop"
    /\ Top.from = "Disconnect"
    /\ stack' = Pop
    /\ lastOp' = Op("Disconnect", Top.res, FALSE, 0)
    /\ UNCHANGED <<mConnectedCallback, mContext, mPeerAddress, mTransmitMessage,
                   data, posted, started, connected, heap>>
    /\ UNCHANGED ownGhost
    /\ UNCHANGED flushGhost
    /\ UNCHANGED cbGhost
    /\ Quiet

\* -------------------------------------------------------------------- Stop
\* the part of Stop after the optional Disconnect: free the pending message,
\* clear the reference, return Client::Stop()
StopRelease ==
    /\ mTransmitMessage' = NULL
    /\ heap' = IF mTransmitMessage # NULL THEN Free(heap, mTransmitMessage) ELSE heap
    /\ lastOp' = Op("Stop", "None",
                    mTransmitMessage # NULL /\ ~Live(heap, mTransmitMessage),
                    IF mTransmitMessage # NULL THEN 1 ELSE 0)
    /\ data' = <<>>
    /\ dropped' = (dropped \/ sinceFlush # <<>>)
    /\ sinceFlush' = <<>>
    /\ bufPeers' = {}
    /\ UNCHANGED <<mConnectedCallback, mContext, mPeerAddress, posted, clean, handed,
                   sessionPeer>>
    /\ UNCHANGED cbGhost
    /\ Quiet

Stop ==
    /\ stack = <<>>
    /\ IF started
       THEN \* IsConnectionStarted(): Disconnect() first
            /\ started' = FALSE
            /\ connected' = FALSE
            /\ stack' = <<Frame("Stop", "Stop", EmitBudget(started), "None")>>
            /\ lastOp' = Op("Dtls::Stop", "", FALSE, 0)
            /\ sessionPeer' = Unspecified
            /\ UNCHANGED <<handed, bufPeers>>
            /\ UNCHANGED <<mConnectedCallback, mContext, mPeerAddress,
                           mTransmitMessage, data, posted, heap>>
            /\ UNCHANGED flushGhost
            /\ UNCHANGED cbGhost
            /\ Quiet
       ELSE /\ StopRelease
            /\ UNCHANGED <<started, connected, stack>>

StopReturn ==
    /\ stack # <<>>
    /\ Top.op = "Stop"
    /\ Top.from = "Stop"
    /\ stack' = Pop
    /\ StopRelease
    /\ UNCHANGED <<started, connected>>

\* ------------------------------------------------------------- SendMessage
\* (mutation: IsConnectionStarted() is tested instead of IsConnected())
SendMessageAllowedStarted == started
SendMessageAllowed == connected

\* SendMessage -> Client::SendMessage -> the transport hook Send(message) ->
\* Dtls::Send(mBuffer, length)
\* line 124: the message must fit the fixed plaintext buffer
SendFits(length) == length <= kMaxMessageLength

\* (mutation: the message is freed whatever Dtls::Send returned)
SendFreesAlways(res) == 1

\* lines 128-130: the caller's message is freed only past SuccessOrExit
SendFrees(res) == IF res = "None" THEN 1 ELSE 0

SendMessage(length, ok) ==
    /\ stack = <<>>
    /\ IF ~SendMessageAllowed
       THEN /\ lastOp' = Op("SendMessage", "InvalidState", FALSE, 0)
            /\ stack' = stack
            /\ hookLen' = 0
       ELSE IF ~SendFits(length)
       THEN /\ lastOp' = Op("SendMessage", "NoBufs", FALSE, 0)
            /\ stack' = stack
            /\ hookLen' = length
       ELSE /\ lastOp' = Op("Dtls::Send", "", FALSE, 0)
            /\ stack' = <<Frame("Send", "SendMessage", EmitBudget(ok),
                                IF ok THEN "None" ELSE "Failed")>>
            /\ hookLen' = length
    /\ sendTo' = NoSend
    /\ flushRec' = NoFlush
    /\ lastFire' = NoFire
    /\ lastSrc' = NoSrc
    /\ processed' = NoSrc
    /\ UNCHANGED <<mConnectedCallback, mContext, mPeerAddress, mTransmitMessage,
                   data, posted, started, connected, heap>>
    /\ UNCHANGED ownGhost
    /\ UNCHANGED flushGhost
    /\ UNCHANGED cbGhost

\* Dtls::Send returned: the hook frees the caller's message on success only
SendReturn ==
    /\ stack # <<>>
    /\ Top.op = "Send"
    /\ stack' = Pop
    /\ lastOp' = Op("SendMessage", Top.res, FALSE, SendFrees(Top.res))
    /\ UNCHANGED <<mConnectedCallback, mContext, mPeerAddress, mTransmitMessage,
                   data, posted, started, connected, heap>>
    /\ UNCHANGED ownGhost
    /\ UNCHANGED flushGhost
    /\ UNCHANGED cbGhost
    /\ Quiet

\* ----------------------------------------------------------------- Receive
\* (mutation: the port comparison of line 146 is dropped)
PeerMatchesAddrOnly(peer, src) == peer[1] = src[1]
PeerMatches(peer, src) == peer[1] = src[1] /\ peer[2] = src[2]

Receive(src, hs) ==
    /\ stack = <<>>
    /\ IF ~PeerMatches(mPeerAddress, src)
       THEN /\ lastOp' = Op("ReceiveDrop", "", FALSE, 0)
            /\ UNCHANGED <<stack, connected>>
       ELSE /\ lastOp' = Op("Dtls::Receive", "", FALSE, 0)
            /\ connected' = DtlsReceiveConnected(hs)
            /\ stack' = <<Frame("Receive", "Receive", EmitBudget(started), "None")>>
    /\ lastSrc' = src
    /\ sendTo' = NoSend
    /\ flushRec' = NoFlush
    /\ lastFire' = NoFire
    /\ NoHook
    /\ UNCHANGED <<mConnectedCallback, mContext, mPeerAddress, mTransmitMessage,
                   data, posted, started, heap>>
    /\ UNCHANGED ownGhost
    /\ UNCHANGED flushGhost
    /\ UNCHANGED cbGhost

\* Dtls::Receive returned: fire the connected callback when there is one
FireCallback == connected /\ mConnectedCallback # NULL

ReceiveReturn ==
    /\ stack # <<>>
    /\ Top.op = "Receive"
    /\ IF FireCallback
       THEN \* mConnectedCallback(mContext) is running
            /\ stack' = Pop \o <<Frame("Callback", "Receive", 0, "None")>>
            /\ lastOp' = Op("Callback", "", FALSE, 0)
            /\ fired' = IF fired < 2 THEN fired + 1 ELSE fired
            /\ lastFire' = [cb |-> mConnectedCallback, ctx |-> mContext,
                            conn |-> connected]
            /\ UNCHANGED connOk
       ELSE /\ stack' = Pop
            /\ lastOp' = Op("Receive", "", FALSE, 0)
            /\ lastFire' = NoFire
            /\ UNCHANGED cbGhost
    /\ sendTo' = NoSend
    /\ flushRec' = NoFlush
    /\ lastSrc' = NoSrc
    /\ NoHook
    /\ UNCHANGED <<mConnectedCallback, mContext, mPeerAddress, mTransmitMessage,
                   data, posted, started, connected, heap>>
    /\ UNCHANGED ownGhost
    /\ UNCHANGED flushGhost

\* the callback returned: clear the registration, Receive returns
CallbackReturn ==
    /\ stack # <<>>
    /\ Top.op = "Callback"
    /\ stack' = Pop
    /\ mConnectedCallback' = NULL
    /\ mContext' = NULL
    /\ lastOp' = Op("Receive", IF Top.k = 1 THEN "Reconnected" ELSE "", FALSE, 0)
    /\ UNCHANGED <<mPeerAddress, mTransmitMessage, data, posted, started, connected,
                   heap>>
    /\ UNCHANGED ownGhost
    /\ UNCHANGED flushGhost
    /\ UNCHANGED cbGhost
    /\ Quiet

\* ------------------------------------------------------- HandleDtlsReceive
\* The engine hands decrypted application bytes to the bridge during
\* Dtls::Receive of a connected session.
\* (mutation: the message is freed only on the dispatching path)
DtlsReceiveFreesOnDispatch(message, appendOk) ==
    IF message # NULL /\ appendOk THEN 1 ELSE 0

\* lines 177-182: the exit label frees whatever was allocated
DtlsReceiveFrees(message, appendOk) == IF message # NULL THEN 1 ELSE 0

\* lines 172-175: ProcessReceivedMessage runs only past both checks
DtlsReceiveDispatches(message, appendOk) == message # NULL /\ appendOk

HandleDtlsReceive(allocOk, appendOk) ==
    /\ stack # <<>>
    /\ Top.op = "Receive"
    /\ connected
    /\ Top.k < MaxEmit
    /\ stack' = [stack EXCEPT ![Len(stack)].k = @ + 1]
    /\ LET message == NewMessage(heap, allocOk)
           h1 == IF message = NULL THEN heap ELSE [heap EXCEPT ![message] = "live"]
           frees == DtlsReceiveFrees(message, appendOk)
       IN  /\ heap' = IF frees > 0 THEN Free(h1, message) ELSE h1
           /\ processed' = IF DtlsReceiveDispatches(message, appendOk)
                            THEN mPeerAddress
                            ELSE NoSrc
           /\ lastOp' = Op("HandleDtlsReceive",
                           IF message = NULL THEN "NoBufs"
                           ELSE IF appendOk THEN "None" ELSE "Dropped",
                           FALSE, frees)
    /\ sendTo' = NoSend
    /\ flushRec' = NoFlush
    /\ lastFire' = NoFire
    /\ lastSrc' = NoSrc
    /\ hookLen' = 0
    /\ UNCHANGED <<mConnectedCallback, mContext, mPeerAddress, mTransmitMessage,
                   data, posted, started, connected>>
    /\ UNCHANGED ownGhost
    /\ UNCHANGED flushGhost
    /\ UNCHANGED cbGhost

\* --------------------------------------------------------------------- Next
Next ==
    \/ \E peer \in Peers, cb \in Callbacks, ok \in BOOLEAN : Connect(peer, cb, ok)
    \/ ConnectReturn
    \/ Disconnect
    \/ DisconnectReturn
    \/ Stop
    \/ StopReturn
    \/ \E length \in 1..(kMaxMessageLength + 1), ok \in BOOLEAN : SendMessage(length, ok)
    \/ SendReturn
    \/ \E src \in Sources, hs \in BOOLEAN : Receive(src, hs)
    \/ ReceiveReturn
    \/ CallbackReturn
    \/ \E chunk \in Chunks, allocOk \in BOOLEAN, appendOk \in BOOLEAN :
           HandleDtlsSend(chunk, allocOk, appendOk)
    \/ \E allocOk \in BOOLEAN, appendOk \in BOOLEAN : HandleDtlsReceive(allocOk, appendOk)
    \/ \E sendOk \in BOOLEAN : HandleUdpTransmit(sendOk)

Spec == Init /\ [][Next]_vars

\* ===================================================================== claims

\* C1 (as stated): when every HandleDtlsSend call since the previous flush run
\* succeeded and at least one chunk was accepted, the flush run issues exactly
\* one SendTo whose payload is the accepted chunks concatenated in call order.
C1_FlushSendsAllChunks ==
    (flushRec.valid /\ flushRec.clean /\ (flushRec.dropped \/ flushRec.chunks # <<>>))
        => /\ ~flushRec.dropped
           /\ flushRec.n = 1
           /\ flushRec.payload = Concat(flushRec.chunks)

\* C1 (amended): the same, provided Stop did not release the pending message
\* between the two flush runs.
C1_FlushSendsChunksUnlessStopped ==
    (flushRec.valid /\ flushRec.clean /\ ~flushRec.dropped /\ flushRec.chunks # <<>>)
        => /\ flushRec.n = 1
           /\ flushRec.payload = Concat(flushRec.chunks)

C1_Witness ==
    /\ flushRec.valid /\ flushRec.clean /\ ~flushRec.dropped
    /\ Len(flushRec.chunks) >= 2
    /\ flushRec.chunks[1] # flushRec.chunks[2]
    /\ flushRec.n = 1
    /\ sendTo.valid

\* C2: whenever HandleDtlsSend returns an error, the error is NoBufs and the
\* pending-message reference is empty.
C2_DtlsSendFailureClearsReference ==
    (lastOp.op = "HandleDtlsSend" /\ lastOp.res # "None")
        => /\ lastOp.res = "NoBufs"
           /\ mTransmitMessage = NULL

\* C3: the connected callback is invoked only while IsConnected() is true and
\* with the stored context, at most once per Connect, and once a successful
\* Connect's session is connected and Receive has returned it has been invoked
\* exactly once.
C3_CallbackExactlyOnce ==
    /\ fired <= 1
    /\ lastFire.cb # NULL => (lastFire.conn /\ lastFire.ctx = ContextOf(lastFire.cb))
    /\ (stack = <<>> /\ connOk /\ connected) => fired = 1

\* C4: a Receive of a datagram whose source address or port differs from the
\* bound peer changes nothing: no engine call, no callback, the registration,
\* the pending message, the flush task and the peer endpoint stay as they are.
C4_ForeignDatagramIgnored ==
    [][(lastSrc' # NoSrc
        /\ (lastSrc'[1] # mPeerAddress[1] \/ lastSrc'[2] # mPeerAddress[2]))
       => (UNCHANGED prog /\ lastFire' = NoFire /\ sendTo' = NoSend)]_vars

C4_Witness ==
    /\ lastOp.op = "ReceiveDrop"
    /\ lastSrc[1] = mPeerAddress[1]
    /\ lastSrc[2] # mPeerAddress[2]
    /\ connected
    /\ mConnectedCallback # NULL
    /\ mTransmitMessage # NULL
    /\ posted

\* C5: SendMessage called while IsConnected() is false returns InvalidState
\* and changes nothing: no engine call, nothing buffered, no flush posted, no
\* SendTo.
C5_SendMessageNeedsConnection ==
    [][(stack = <<>> /\ lastOp'.op \in {"SendMessage", "Dtls::Send"} /\ ~connected)
       => (lastOp'.res = "InvalidState" /\ UNCHANGED prog /\ sendTo' = NoSend)]_vars

C5_Witness ==
    /\ lastOp.op = "SendMessage"
    /\ lastOp.res = "InvalidState"
    /\ started
    /\ ~connected

\* C6: SendTo is never issued while an engine call or one of its callbacks is
\* on the call stack.
C6_SendToOutsideEngine == sendTo.valid => sendTo.depth = 0

C6_Witness ==
    /\ sendTo.valid
    /\ sendTo.depth = 0
    /\ sendTo.payload # <<>>
    /\ sendTo.live

\* C7: after Stop returns the engine is not started, the pending message has
\* been freed exactly once and the reference is empty.
C7_StopReleasesOnce ==
    lastOp.op = "Stop"
        => /\ ~started
           /\ mTransmitMessage = NULL
           /\ ~lastOp.bad

\* C8: when Disconnect returns no pending outbound message is held.
C8_DisconnectReleasesPending ==
    lastOp.op = "Disconnect" => mTransmitMessage = NULL

\* C9: after Disconnect or Stop returns no callback is registered.
C9_DisconnectClearsCallback ==
    lastOp.op \in {"Disconnect", "Stop"}
        => (mConnectedCallback = NULL /\ mContext = NULL)

\* C10: whenever Connect returns a failure the session is Idle.
C10_FailedConnectLeavesIdle ==
    (lastOp.op = "Connect" /\ lastOp.res # "None") => (~started /\ ~connected)

\* C11: after every flush run the pending-message reference is empty, and a
\* message whose SendTo failed has been freed by the flush, so no message is
\* left allocated without an owner.
C11_FlushClearsAndFreesOnFailure ==
    lastOp.op = "HandleUdpTransmit"
        => /\ mTransmitMessage = NULL
           /\ (lastOp.res = "Failed" /\ sendTo.live) => lastOp.n = 1
           /\ \A i \in handed : heap[i] # "live"

\* C12: the Send hook frees the caller's message exactly when it returns
\* success: an oversize message gives NoBufs with no engine call and no free,
\* an engine error is returned unchanged with no free, success frees once.
C12_SendFreesIffSuccess ==
    [][/\ (hookLen' > kMaxMessageLength)
            => (lastOp' = Op("SendMessage", "NoBufs", FALSE, 0) /\ stack' = stack)
       /\ (hookLen' # 0 /\ hookLen' <= kMaxMessageLength)
            => (lastOp'.op = "Dtls::Send" /\ Len(stack') = 1)
       /\ (stack # <<>> /\ lastOp'.op = "SendMessage")
            => /\ lastOp'.res = stack[Len(stack)].res
               /\ lastOp'.n = (IF lastOp'.res = "None" THEN 1 ELSE 0)]_vars

C12_Witness ==
    /\ lastOp.op = "SendMessage"
    /\ lastOp.res = "Failed"
    /\ lastOp.n = 0
    /\ connected

\* C13: there is at most one pending outbound message: a chunk arriving while
\* the reference is non-empty goes to that same message, and every message
\* HandleDtlsSend allocated is exactly one of referenced, handed to SendTo, or
\* freed.
C13_OneOwnerPerMessage ==
    /\ \A i \in MsgIds :
          /\ heap[i] = "live" => ((i = mTransmitMessage) # (i \in handed))
          /\ heap[i] = "pool" => (i # mTransmitMessage /\ i \notin handed)
    /\ (lastOp.op = "HandleDtlsSend" /\ lastOp.res = "None")
          => Live(heap, mTransmitMessage)

\* C14: while a session is started, every datagram handed to the engine's
\* Receive comes from the peer endpoint of the Connect that started the
\* session, whatever was called since (a failed Connect included).
C14_EngineSeesOnlySessionPeer ==
    (started /\ lastOp.op = "Dtls::Receive" /\ lastSrc # NoSrc)
        => lastSrc = sessionPeer

\* C15: HandleDtlsReceive neither leaks nor double-frees its message: a failed
\* allocation dispatches and frees nothing, a failed Append frees once without
\* dispatch, otherwise ProcessReceivedMessage runs once with the bound peer as
\* source and the message is freed once.
C15_DtlsReceiveFreesOnce ==
    [][lastOp'.op = "HandleDtlsReceive"
       => /\ heap' = heap
          /\ ~lastOp'.bad
          /\ lastOp'.res = "NoBufs" => (processed' = NoSrc /\ lastOp'.n = 0)
          /\ lastOp'.res = "Dropped" => (processed' = NoSrc /\ lastOp'.n = 1)
          /\ lastOp'.res = "None" => (processed' = mPeerAddress /\ lastOp'.n = 1)]_vars

C15_Witness ==
    /\ lastOp.op = "HandleDtlsReceive"
    /\ lastOp.res = "None"
    /\ lastOp.n = 1
    /\ processed = mPeerAddress
    /\ processed \in Peers

\* C16: a flush run that finds no pending message calls neither SendTo nor
\* Free and leaves the reference empty and the rest of the bridge's state as
\* it was, also when Stop released the message after the flush was posted.
C16_EmptyFlushIsNoOp ==
    [][(lastOp'.op = "HandleUdpTransmit" /\ mTransmitMessage = NULL)
       => /\ sendTo' = NoSend
          /\ lastOp'.n = 0
          /\ heap' = heap
          /\ mTransmitMessage' = NULL
          /\ UNCHANGED <<mConnectedCallback, mContext, mPeerAddress, data, started,
                         connected, handed>>]_vars

C16_Witness ==
    /\ lastOp.op = "HandleUdpTransmit"
    /\ lastOp.res = "NoBufs"
    /\ flushRec.valid
    /\ flushRec.dropped
    /\ flushRec.n = 0
    /\ sendTo = NoSend

\* C17: the pending-message reference is always empty or refers to a live
\* message, and no Append, SendTo or Free is applied to a message that was
\* already freed.
C17_ReferenceIsLive ==
    /\ mTransmitMessage # NULL => Live(heap, mTransmitMessage)
    /\ ~lastOp.bad

\* C18: whenever the pending-message reference is non-empty the flush task is
\* posted (so that a fairly scheduled flush eventually sends or Stop releases
\* every pending message).
C18_PendingImpliesPosted ==
    mTransmitMessage # NULL => posted

\* C19: every SendTo of the flush is addressed to the peer endpoint that was
\* bound when each chunk of its payload was buffered.
C19_SendToBufferingPeer ==
    sendTo.valid => sendTo.peers \subseteq {sendTo.dest}

\* C20: a Connect made by the connected callback while Receive is invoking it
\* is still registered (callback and context) when that Receive returns.
C20_ReentrantConnectSurvives ==
    (lastOp.op = "Receive" /\ lastOp.res = "Reconnected")
        => /\ mConnectedCallback # NULL
           /\ mContext = ContextOf(mConnectedCallback)

====
